---- MODULE Spec2Model ----
(***************************************************************************)
(* Model of the vercel-static-extensions pipeline: the driver script       *)
(* src/src/cli.ts and buildExtension of src/src/extensionsBuilder.ts,      *)
(* running against a file system rooted at the working directory.          *)
(*                                                                         *)
(* A path is a sequence of segments and a segment is the sequence of its   *)
(* dot-separated parts: "auth.config.js" is <<"auth","config","js">>.      *)
(* The file system is a function from the existing paths to their content. *)
(***************************************************************************)
EXTENDS Integers, Sequences, FiniteSets, TLC

\* Number of extension directories present under EXTENSIONS_ROOT_DIR.
MaxExtensions == 2

----------------------------------------------------------------------------
\* node:path on segment sequences

Join(p, q) == p \o q

Dirname(p) == IF Len(p) = 0 THEN <<>> ELSE SubSeq(p, 1, Len(p) - 1)

LastSeg(p) == p[Len(p)]

\* path.basename(p, ".js"): the last segment without a trailing ".js"
BasenameJs(p) ==
    LET s == LastSeg(p)
    IN  IF Len(s) > 1 /\ s[Len(s)] = "js" THEN SubSeq(s, 1, Len(s) - 1) ELSE s

\* variant: the directory carries the bare base name
FuncSeg_noSuffix(p) == BasenameJs(p)

\* `${path.basename(output, ".js")}.func`
FuncSeg(p) == Append(BasenameJs(p), "func")

\* path.join(root, path.dirname(output), `${basename}.func`)
FuncDir(root, output) == Join(Join(root, Dirname(output)), <<FuncSeg(output)>>)

IsPrefix(q, p) == Len(q) <= Len(p) /\ SubSeq(p, 1, Len(q)) = q

Prefixes(p) == { SubSeq(p, 1, n) : n \in 1..Len(p) }

----------------------------------------------------------------------------
\* Paths the driver computes

TMP_DIR == << <<".vercel-static-extensions">> >>

VERCEL_DIR == << <<".vercel">> >>

VERCEL_BUILD_OUTPUT == Join(VERCEL_DIR, << <<"output">> >>)

staticFilesOutputDir == Join(VERCEL_BUILD_OUTPUT, << <<"static">> >>)

functionsDir == Join(VERCEL_BUILD_OUTPUT, << <<"functions">> >>)

manifestPath == Join(VERCEL_BUILD_OUTPUT, << <<"config", "json">> >>)

\* config.staticDirectory joined to the working directory
StaticAssetsDir(cfg) == << <<cfg.staticDirectory>> >>

extensionBuildPath(ext) == Join(TMP_DIR, << <<ext>>, <<"build">> >>)

\* variant: the extension is assembled in place, in the functions subtree
extensionOutputPath_inPlace(ext) == Join(VERCEL_DIR, << <<"output">>, <<"functions">> >>)

extensionOutputPath(ext) == Join(TMP_DIR, << <<ext>>, <<"output">> >>)

----------------------------------------------------------------------------
\* File contents: <<kind, extension, id>>

DirC == <<"dir", "", "">>

IsDir(f, p) == p \in DOMAIN f /\ f[p] = DirC

IsFile(f, p) == p \in DOMAIN f /\ f[p] # DirC

Exists(f, p) == p \in DOMAIN f

\* the file system with the tree below p (p included) taken away
RmTree(f, p) == [ q \in { r \in DOMAIN f : ~IsPrefix(p, r) } |-> f[q] ]

\* fs.rmSync(p, {recursive: true}) without force throws when p does not exist
RmThrows(f, p) == ~Exists(f, p)

\* fs.mkdirSync(p, {recursive: true}) throws when a component is a file
MkdirThrows(f, p) == \E q \in Prefixes(p) : IsFile(f, q)

MkdirP(f, p) ==
    [ q \in DOMAIN f \cup Prefixes(p) |-> IF q \in DOMAIN f THEN f[q] ELSE DirC ]

\* writing one file (the directory is there already)
WriteFile(f, p, c) == [ q \in DOMAIN f \cup {p} |-> IF q = p THEN c ELSE f[q] ]

\* the paths below src, relative to src
RelTree(f, src) ==
    { SubSeq(r, Len(src) + 1, Len(r)) : r \in { r \in DOMAIN f : IsPrefix(src, r) } }

\* a directory would land on a file or a file on a directory
CpTypeConflict(f, src, dst) ==
    \E r \in RelTree(f, src) :
        /\ Exists(f, Join(dst, r))
        /\ (f[Join(src, r)] = DirC) # (f[Join(dst, r)] = DirC)

\* a file of the source lands on a file that is already there
CpCollides(f, src, dst) ==
    \E r \in RelTree(f, src) : IsFile(f, Join(src, r)) /\ IsFile(f, Join(dst, r))

\* Options of fs.cpSync: the calls pass errorOnExist and recursive and leave
\* force at Node's default, true; errorOnExist is only read when force is false.
cpForceDefault == TRUE

CopyOpts == [recursive |-> TRUE, errorOnExist |-> TRUE, force |-> cpForceDefault]

\* fs.cpSync(src, dst, opts) throws
CpThrows(f, src, dst, opts) ==
    \/ ~Exists(f, src)
    \/ CpTypeConflict(f, src, dst)
    \/ (~opts.force /\ opts.errorOnExist /\ CpCollides(f, src, dst))

\* fs.cpSync(src, dst, opts) when it does not throw: the parent of dst is
\* created, directories merge, an existing file is replaced only under force
CpTree(f, src, dst, opts) ==
    LET rel == RelTree(f, src)
        tgt == { Join(dst, r) : r \in rel }
        par == Prefixes(Dirname(dst))
    IN  [ q \in DOMAIN f \cup par \cup tgt |->
            IF q \in tgt
            THEN LET r == SubSeq(q, Len(dst) + 1, Len(q))
                 IN  IF Exists(f, q) /\ f[q] # DirC /\ ~opts.force
                     THEN f[q]
                     ELSE f[Join(src, r)]
            ELSE IF q \in DOMAIN f THEN f[q] ELSE DirC ]

\* a copy interrupted by an I/O error: the directories are there, no file is
CpDirsOnly(f, src, dst) ==
    LET tgt == { Join(dst, r) : r \in { r \in RelTree(f, src) : IsDir(f, Join(src, r)) } }
        par == Prefixes(Dirname(dst))
    IN  [ q \in DOMAIN f \cup par \cup tgt |-> IF q \in DOMAIN f THEN f[q] ELSE DirC ]

\* removing a list of directories in order, stopping at the first throw
RECURSIVE RmAll(_, _)
RmAll(f, dirs) ==
    IF Len(dirs) = 0 \/ RmThrows(f, Head(dirs))
    THEN f
    ELSE RmAll(RmTree(f, Head(dirs)), Tail(dirs))

RECURSIVE RmAllThrows(_, _)
RmAllThrows(f, dirs) ==
    IF Len(dirs) = 0 THEN FALSE
    ELSE IF RmThrows(f, Head(dirs)) THEN TRUE
    ELSE RmAllThrows(RmTree(f, Head(dirs)), Tail(dirs))

----------------------------------------------------------------------------
\* Extension descriptors (config.json of an extension)

Asset(id, input, output) == [id |-> id, input |-> input, output |-> output]

Function(id, deps, vc) == [id |-> id, dependenciesById |-> deps, vcConfig |-> vc]

mwAsset == Asset("mw", << <<"middleware", "ts">> >>, << <<"middleware", "js">> >>)

cfgAsset == Asset("cfg", << <<"auth", "config", "ts">> >>, << <<"auth", "config", "js">> >>)

routeAsset == Asset("route", << <<"api">>, <<"route", "ts">> >>, << <<"api">>, <<"route", "js">> >>)

cartAsset == Asset("cart", << <<"cart", "ts">> >>, << <<"cart", "js">> >>)

Descriptor(assets, functions) == [assets |-> assets, functions |-> functions]

\* the descriptors an extension directory may hold
DescriptorsOf(ext) ==
    IF ext = "authentication" THEN
        { Descriptor(<<mwAsset, cfgAsset>>, <<Function("mw", <<"cfg">>, "edge")>>),
          Descriptor(<<mwAsset, cfgAsset>>, <<Function("mw", <<"ghost">>, "edge")>>),
          Descriptor(<<mwAsset, cfgAsset>>, <<Function("mw", <<"cfg", "cfg">>, "edge")>>),
          Descriptor(<<mwAsset, cfgAsset>>,
                     <<Function("cfg", <<>>, "node"), Function("ghost", <<>>, "edge")>>) }
    ELSE IF ext = "billing" THEN
        { Descriptor(<<routeAsset>>, <<Function("route", <<>>, "node")>>),
          Descriptor(<<mwAsset>>, <<Function("mw", <<>>, "node")>>) }
    ELSE
        { Descriptor(<<cartAsset>>, <<Function("cart", <<>>, "node")>>) }

\* the directories of EXTENSIONS_ROOT_DIR in readdir order
AllExtensions == <<"authentication", "billing", "cart">>

Min(a, b) == IF a < b THEN a ELSE b

installed == SubSeq(AllExtensions, 1, Min(MaxExtensions, Len(AllExtensions)))

Reverse(s) == [ i \in 1..Len(s) |-> s[Len(s) + 1 - i] ]

SeqRange(s) == { s[i] : i \in 1..Len(s) }

\* the secrets of the authentication extension
EnvNames ==
    {"AUTH_MICROSOFT_ENTRA_CLIENT_ID", "AUTH_MICROSOFT_ENTRA_ID_SECRET",
     "AUTH_MICROSOFT_ENTRA_ID_TENANT_ID", "AUTH_SECRET"}

\* config.extensions.authentication, with the names it designates
Authentication(names) == [provider |-> "microsoft-entra-id", environmentVariables |-> names]

\* Default Values
DefaultConfig ==
    [staticDirectory |-> "build", extensions |-> <<"authentication">>,
     authentication |-> Authentication([n \in EnvNames |-> n])]

\* the names a user may designate
CustomEnv ==
    ("AUTH_MICROSOFT_ENTRA_CLIENT_ID" :> "AUTH_MICROSOFT_ENTRA_CLIENT_ID1")
    @@ ("AUTH_MICROSOFT_ENTRA_ID_SECRET" :> "AUTH_MICROSOFT_ENTRA_ID_SECRET2")
    @@ ("AUTH_MICROSOFT_ENTRA_ID_TENANT_ID" :> "AUTH_MICROSOFT_ENTRA_ID_TENANT_ID2")
    @@ ("AUTH_SECRET" :> "MY_AUTH_SECRET")

Restrict(f, S) == [x \in S |-> f[x]]

\* the authentication entries a configuration file may hold: all four names,
\* or three of them (the example of the README names no AUTH_SECRET)
UserAuthentications ==
    { Authentication(CustomEnv),
      Authentication(Restrict(CustomEnv, EnvNames \ {"AUTH_SECRET"})) }

\* what a vercel-static-extensions.config.json may hold: the keys of its
\* extensions record in declaration order
UserConfigs ==
    { [staticDirectory |-> "dist", extensions |-> Reverse(SubSeq(installed, 1, n)),
       authentication |-> a] :
        n \in 1..Len(installed), a \in UserAuthentications }

----------------------------------------------------------------------------
\* The working tree before the run

TreeOf(paths, files) ==
    [ q \in paths \cup DOMAIN files |-> IF q \in DOMAIN files THEN files[q] ELSE DirC ]

EmptyTree == TreeOf({}, <<>>)

Merge(f, g) == [ q \in DOMAIN f \cup DOMAIN g |-> IF q \in DOMAIN g THEN g[q] ELSE f[q] ]

StaticTree(name) ==
    LET d == << <<name>> >>
    IN  TreeOf({d}, (Join(d, << <<"index", "html">> >>) :> <<"static", "", "index">>))

ProjectFile == Join(VERCEL_DIR, << <<"project", "json">> >>)

\* .vercel as `vercel link` leaves it
LinkedTree == TreeOf({VERCEL_DIR}, (ProjectFile :> <<"user", "", "project">>))

\* the output of an earlier run
StaleOutputTree ==
    TreeOf({VERCEL_DIR, VERCEL_BUILD_OUTPUT, staticFilesOutputDir},
           (Join(staticFilesOutputDir, << <<"index", "html">> >>) :> <<"stale", "", "index">>)
           @@ (manifestPath :> <<"stale", "", "manifest">>))

\* scratch directories an earlier, aborted run left behind
StaleTmpTree ==
    TreeOf({TMP_DIR, Join(TMP_DIR, << <<"authentication">> >>),
            extensionBuildPath("authentication"), extensionOutputPath("authentication")},
           (Join(extensionOutputPath("authentication"), << <<"old", "js">> >>)
                :> <<"stale", "", "old">>))

InitialTrees ==
    { Merge(Merge(s, v), t) :
        s \in { EmptyTree, Merge(StaticTree("build"), StaticTree("dist")) },
        v \in { EmptyTree, LinkedTree, Merge(LinkedTree, StaleOutputTree) },
        t \in { EmptyTree, StaleTmpTree } }

----------------------------------------------------------------------------
VARIABLES
    pc,                    \* the statement the process is at
    fs,                    \* the working tree
    fs0,                   \* the working tree before the run
    configFile,            \* "absent", "malformed" or "valid"
    userConfig,            \* what the configuration file holds when valid
    descr,                 \* extension name -> its descriptor
    config,
    exitCode,
    cleanupDirectories,
    extensionsDirectories,
    extensionsOutputs,
    indexExtension,
    mergeIndex,            \* position of the merge loop in extensionsOutputs
    cleanupDirs,           \* buildExtension: cleanupDirs
    buildFiles,            \* buildExtension: [id, outputDirectory] pairs
    assetIndex,            \* buildExtension: assets compiled so far
    fnIndex,               \* buildExtension: function being assembled
    depIndex,              \* buildExtension: dependencies copied so far
    thrown,                \* buildExtension: what its try block threw
    esbuildDefine,         \* the substitutions the loop hands to buildExtension
    reported,              \* the directories console.error told to delete by hand
    run,                   \* 1 in the first run of the script, 2 in the second
    lastOutput,            \* the output tree of the last successful run
    exitStatus,            \* the status the process ended with
    uncaught,              \* the process ended on an uncaught exception
    failed                 \* the stages in which an operation threw

vars == <<pc, fs, fs0, configFile, userConfig, descr, config, exitCode,
          cleanupDirectories, extensionsDirectories, extensionsOutputs,
          indexExtension, mergeIndex, cleanupDirs, buildFiles, assetIndex,
          fnIndex, depIndex, thrown, esbuildDefine, reported, run, lastOutput,
          exitStatus, uncaught, failed>>

cliVars == <<config, exitCode, cleanupDirectories, extensionsDirectories,
             extensionsOutputs, indexExtension, mergeIndex>>

buildVars == <<cleanupDirs, buildFiles, assetIndex, fnIndex, depIndex, thrown>>

envVars == <<fs0, configFile, userConfig, descr, run, lastOutput>>

\* the extensions a configuration enables, whatever file declares them
EnabledBy(cfg) == SeqRange(cfg.extensions)

\* no substitutions
NoDefine == [k \in {} |-> <<>>]

\* what stands for the file's content when the file is never parsed
UnreadConfig ==
    [staticDirectory |-> "dist", extensions |-> <<"authentication">>,
     authentication |-> Authentication(CustomEnv)]

\* no output tree recorded yet
NoOutput == [q \in {} |-> DirC]

Init ==
    /\ pc = "loadConfig"
    /\ fs \in InitialTrees
    /\ fs0 = fs
    /\ configFile \in {"absent", "malformed", "valid"}
    /\ userConfig \in UserConfigs
    /\ configFile # "valid" => userConfig = UnreadConfig
    /\ descr \in [SeqRange(installed) -> UNION { DescriptorsOf(e) : e \in SeqRange(installed) }]
    /\ \A e \in SeqRange(installed) :
          /\ descr[e] \in DescriptorsOf(e)
          /\ (e \notin EnabledBy(IF configFile = "valid" THEN userConfig ELSE DefaultConfig)
                => descr[e] = CHOOSE d \in DescriptorsOf(e) : TRUE)
    /\ config = DefaultConfig
    /\ exitCode = 0
    /\ cleanupDirectories = <<>>
    /\ extensionsDirectories = <<>>
    /\ extensionsOutputs = <<>>
    /\ indexExtension = 0
    /\ mergeIndex = 0
    /\ cleanupDirs = <<>>
    /\ buildFiles = <<>>
    /\ assetIndex = 0
    /\ fnIndex = 0
    /\ depIndex = 0
    /\ thrown = "none"
    /\ esbuildDefine = NoDefine
    /\ reported = {}
    /\ run = 1
    /\ lastOutput = NoOutput
    /\ exitStatus = 0
    /\ uncaught = FALSE
    /\ failed = {}

\* an exception nothing catches ends the process with status 1
Uncaught ==
    /\ pc' = "done"
    /\ uncaught' = TRUE
    /\ exitStatus' = 1

\* process.exit(code)
Exit(code) ==
    /\ pc' = "done"
    /\ uncaught' = FALSE
    /\ exitStatus' = code

Goto(l) ==
    /\ pc' = l
    /\ UNCHANGED <<uncaught, exitStatus>>

----------------------------------------------------------------------------
\* cli.ts

\* the configuration in effect after the try block around the file's load
\* variant: whatever the file holds is taken, also when it does not parse
LoadedConfig_noFallback(file, user) == IF file = "absent" THEN DefaultConfig ELSE user

LoadedConfig(file, user) == IF file = "valid" THEN user ELSE DefaultConfig

LoadConfig ==
    /\ pc = "loadConfig"
    /\ config' = LoadedConfig(configFile, userConfig)
    /\ Goto("checkStatic")
    /\ UNCHANGED <<fs, envVars, exitCode, cleanupDirectories, extensionsDirectories,
                   extensionsOutputs, indexExtension, mergeIndex, buildVars, failed>>
    /\ UNCHANGED <<esbuildDefine, reported>>

\* variant: the existence check is dropped
staticDirExists_unchecked(f, cfg) == TRUE

staticDirExists(f, cfg) == Exists(f, StaticAssetsDir(cfg))

CheckStatic ==
    /\ pc = "checkStatic"
    /\ IF staticDirExists(fs, config)
       THEN Goto("cleanOutput") /\ UNCHANGED failed
       ELSE Uncaught /\ failed' = failed \cup {"staticMissing"}
    /\ UNCHANGED <<fs, envVars, cliVars, buildVars>>
    /\ UNCHANGED <<esbuildDefine, reported>>

\* variant: the directory is created if missing and whatever it holds is kept
CleanDirOutcomes_keep(f, p) ==
    { [ok |-> TRUE, fs |-> MkdirP(f, p), tag |-> "mkdir"],
      [ok |-> FALSE, fs |-> f, tag |-> "mkdir"] }

\* if (existsSync(p)) rmSync(p); mkdirSync(p): the tree after it, or the tree
\* at the operation an I/O error stops it
CleanDirOutcomes(f, p) ==
    LET removed == IF Exists(f, p) THEN RmTree(f, p) ELSE f
    IN  { [ok |-> ~MkdirThrows(removed, p),
           fs |-> IF MkdirThrows(removed, p) THEN removed ELSE MkdirP(removed, p),
           tag |-> "mkdir"],
          [ok |-> FALSE, fs |-> removed, tag |-> "mkdir"] }
        \cup (IF Exists(f, p) THEN { [ok |-> FALSE, fs |-> f, tag |-> "rmFault"] } ELSE {})

CleanOutput ==
    /\ pc = "cleanOutput"
    /\ \E o \in CleanDirOutcomes(fs, VERCEL_BUILD_OUTPUT) :
          /\ fs' = o.fs
          /\ IF o.ok
             THEN Goto("cleanTmp") /\ UNCHANGED failed
             ELSE Goto("staticCatch") /\ failed' = failed \cup {"outputRoot", o.tag}
    /\ UNCHANGED <<envVars, cliVars, buildVars>>
    /\ UNCHANGED <<esbuildDefine, reported>>

CleanTmp ==
    /\ pc = "cleanTmp"
    /\ \E o \in CleanDirOutcomes(fs, TMP_DIR) :
          /\ fs' = o.fs
          /\ IF o.ok
             THEN /\ Goto("copyStatic")
                  /\ cleanupDirectories' = Append(cleanupDirectories, TMP_DIR)
                  /\ UNCHANGED failed
             ELSE /\ Goto("staticCatch")
                  /\ failed' = failed \cup {"tmpRoot", o.tag}
                  /\ UNCHANGED cleanupDirectories
    /\ UNCHANGED <<envVars, config, exitCode, extensionsDirectories, extensionsOutputs,
                   indexExtension, mergeIndex, buildVars>>
    /\ UNCHANGED <<esbuildDefine, reported>>

\* fs.cpSync(src, dst, opts): the tree after it, or the tree an error leaves
CopyOutcomes(f, src, dst, opts) ==
    IF CpThrows(f, src, dst, opts)
    THEN { [ok |-> FALSE, fs |-> f] }
    ELSE { [ok |-> TRUE, fs |-> CpTree(f, src, dst, opts)],
           [ok |-> FALSE, fs |-> f],
           [ok |-> FALSE, fs |-> CpDirsOnly(f, src, dst)] }

CopyStatic ==
    /\ pc = "copyStatic"
    /\ \E o \in CopyOutcomes(fs, StaticAssetsDir(config), staticFilesOutputDir, CopyOpts) :
          /\ fs' = o.fs
          /\ IF o.ok
             THEN Goto("staticErr") /\ UNCHANGED failed
             ELSE Goto("staticCatch") /\ failed' = failed \cup {"staticCopy"}
    /\ UNCHANGED <<envVars, cliVars, buildVars>>
    /\ UNCHANGED <<esbuildDefine, reported>>

\* fs.rmSync(p, {recursive: true}): the tree after it, or the throw
RmOutcomes(f, p) ==
    IF RmThrows(f, p)
    THEN { [ok |-> FALSE, fs |-> f, tag |-> "rmMissing"] }
    ELSE { [ok |-> TRUE, fs |-> RmTree(f, p), tag |-> "none"],
           [ok |-> FALSE, fs |-> f, tag |-> "rmFault"] }

\* catch (e) { rmSync(VERCEL_BUILD_OUTPUT); exitCode = 1 }
StaticCatch ==
    /\ pc = "staticCatch"
    /\ \E o \in RmOutcomes(fs, VERCEL_BUILD_OUTPUT) :
          /\ fs' = o.fs
          /\ IF o.ok
             THEN Goto("staticErr") /\ exitCode' = 1 /\ UNCHANGED failed
             ELSE Uncaught /\ UNCHANGED exitCode /\ failed' = failed \cup {o.tag}
    /\ UNCHANGED <<envVars, config, cleanupDirectories, extensionsDirectories,
                   extensionsOutputs, indexExtension, mergeIndex, buildVars>>
    /\ UNCHANGED <<esbuildDefine, reported>>

\* variant: the enabled extensions in the order of the configuration's keys
EnabledDirectories_declared(cfg) == SelectSeq(cfg.extensions, LAMBDA e : e \in SeqRange(installed))

\* readdirSync(EXTENSIONS_ROOT_DIR).filter(enabledExtensions.includes)
EnabledDirectories(cfg) == SelectSeq(installed, LAMBDA e : e \in EnabledBy(cfg))

\* the directories the error handling after the static copy removes
StaticRollbackDirs(cleanup) == <<VERCEL_BUILD_OUTPUT>>

\* removing dirs in order inside try/catch: the tree left, and whether it threw
RollbackOutcomes(f, dirs) ==
    { [fs |-> RmAll(f, dirs), threw |-> RmAllThrows(f, dirs), tag |-> "rmMissing"] }
    \cup { [fs |-> RmAll(f, SubSeq(dirs, 1, n)), threw |-> TRUE, tag |-> "rmFault"] :
             n \in { m \in 0..(Len(dirs) - 1) : ~RmAllThrows(f, SubSeq(dirs, 1, m + 1)) } }

\* "Please delete ${VERCEL_BUILD_OUTPUT} manually."
StaticErrMessage(cleanup) == {VERCEL_BUILD_OUTPUT}

\* "Please delete the following directories manually: ${cleanupDirectories.join(", ")}"
CleanupMessage(cleanup) == SeqRange(cleanup)

StaticErr ==
    /\ pc = "staticErr"
    /\ IF exitCode # 0
       THEN \E o \in RollbackOutcomes(fs, StaticRollbackDirs(cleanupDirectories)) :
               /\ fs' = o.fs
               /\ failed' = IF o.threw THEN failed \cup {o.tag} ELSE failed
               /\ reported' = IF o.threw
                              THEN reported \cup StaticErrMessage(cleanupDirectories)
                              ELSE reported
               /\ Exit(exitCode)
               /\ UNCHANGED extensionsDirectories
       ELSE /\ extensionsDirectories' = EnabledDirectories(config)
            /\ Goto("loop")
            /\ UNCHANGED <<fs, failed, reported>>
    /\ UNCHANGED <<envVars, config, exitCode, cleanupDirectories, extensionsOutputs,
                   indexExtension, mergeIndex, buildVars>>
    /\ UNCHANGED esbuildDefine

\* the text process.env.<name>
ProcessEnv(name) == <<"process", "env", name>>

\* config.extensions.authentication.environmentVariables.X ?? "X"
DesignatedName(cfg, name) ==
    IF name \in DOMAIN cfg.authentication.environmentVariables
    THEN cfg.authentication.environmentVariables[name]
    ELSE name

\* variant: every placeholder is mapped to itself
AuthenticationDefine_ownNames(cfg) ==
    [k \in { ProcessEnv(n) : n \in EnvNames } |-> k]

\* the substitutions of the authentication extension
AuthenticationDefine(cfg) ==
    [k \in { ProcessEnv(n) : n \in EnvNames } |-> ProcessEnv(DesignatedName(cfg, k[3]))]

\* let esbuildDefine = {}; if (extension === "authentication" && ...) { ... }
EsbuildDefineOf(ext, cfg) ==
    IF ext = "authentication" /\ "authentication" \in EnabledBy(cfg)
    THEN AuthenticationDefine(cfg)
    ELSE NoDefine

\* the define option of esbuild.buildSync: the mandatory entries, then the
\* spread of esbuildDefine, whose entries win
DefineOption(define) ==
    define @@ (ProcessEnv("NODE_ENV") :> <<"string", "production">>)
           @@ (<<"__dirname">> :> <<"string", "">>)

\* the for loop over extensionsDirectories, up to the call of buildExtension
Loop ==
    /\ pc = "loop"
    /\ IF indexExtension < Len(extensionsDirectories)
       THEN /\ indexExtension' = indexExtension + 1
            /\ esbuildDefine' = EsbuildDefineOf(extensionsDirectories[indexExtension + 1], config)
            /\ Goto("bInit")
       ELSE /\ Goto("buildErr")
            /\ UNCHANGED <<indexExtension, esbuildDefine>>
    /\ UNCHANGED <<fs, envVars, config, exitCode, cleanupDirectories, extensionsDirectories,
                   extensionsOutputs, mergeIndex, buildVars, failed>>
    /\ UNCHANGED reported

----------------------------------------------------------------------------
\* extensionsBuilder.ts: buildExtension

extension == extensionsDirectories[indexExtension]

\* the deployment instructions and the function the loop is at
instructions == descr[extension]

vercelOutputItem == instructions.functions[fnIndex]

\* variant: an id that matches no asset is taken to be the first asset
FindAsset_firstOnMiss(assets, id) ==
    IF \E i \in 1..Len(assets) : assets[i].id = id
    THEN CHOOSE i \in 1..Len(assets) :
            assets[i].id = id /\ \A j \in 1..(i - 1) : assets[j].id # id
    ELSE 1

\* assets.find(asset => asset.id === id): its position, 0 when there is none
FindAsset(assets, id) ==
    IF \E i \in 1..Len(assets) : assets[i].id = id
    THEN CHOOSE i \in 1..Len(assets) :
            assets[i].id = id /\ \A j \in 1..(i - 1) : assets[j].id # id
    ELSE 0

\* buildFiles.find(buildFile => buildFile[0] === id)
FindBuildFile(files, id) ==
    IF \E i \in 1..Len(files) : files[i][1] = id
    THEN CHOOSE i \in 1..Len(files) :
            files[i][1] = id /\ \A j \in 1..(i - 1) : files[j][1] # id
    ELSE 0

\* the build result buildExtension returns
BuildResult(dirs, ext, ok) ==
    [cleanupDirectories |-> dirs, outputDirectory |-> extensionOutputPath(ext),
     isSuccessful |-> ok]

DropLocals ==
    /\ cleanupDirs' = <<>>
    /\ buildFiles' = <<>>
    /\ assetIndex' = 0
    /\ fnIndex' = 0
    /\ depIndex' = 0
    /\ thrown' = "none"

\* create the clean build and output directories; nothing catches a throw here
BuildInit ==
    /\ pc = "bInit"
    /\ \E o1 \in CleanDirOutcomes(fs, extensionBuildPath(extension)) :
          IF ~o1.ok
          THEN /\ fs' = o1.fs
               /\ Uncaught
               /\ failed' = failed \cup {"extInit", o1.tag}
               /\ UNCHANGED cleanupDirs
          ELSE \E o2 \in CleanDirOutcomes(o1.fs, extensionOutputPath(extension)) :
                  /\ fs' = o2.fs
                  /\ IF o2.ok
                     THEN /\ Goto("bRequire")
                          /\ cleanupDirs' = <<extensionBuildPath(extension),
                                              extensionOutputPath(extension)>>
                          /\ UNCHANGED failed
                     ELSE /\ Uncaught
                          /\ failed' = failed \cup {"extInit", o2.tag}
                          /\ UNCHANGED cleanupDirs
    /\ UNCHANGED <<envVars, cliVars, buildFiles, assetIndex, fnIndex, depIndex, thrown>>
    /\ UNCHANGED <<esbuildDefine, reported>>

\* require(config.json) inside the try block
BuildRequire ==
    /\ pc = "bRequire"
    /\ \E ok \in BOOLEAN :
          IF ok
          THEN Goto("bCompile") /\ UNCHANGED <<thrown, failed>>
          ELSE Goto("bCatch") /\ thrown' = "require" /\ failed' = failed \cup {"build"}
    /\ UNCHANGED <<fs, envVars, cliVars, cleanupDirs, buildFiles, assetIndex, fnIndex, depIndex>>
    /\ UNCHANGED <<esbuildDefine, reported>>

\* the file esbuild writes for an entry point: its name with the extension js
OutFile(input) ==
    LET s == LastSeg(input)
    IN  IF Len(s) > 1 THEN Append(SubSeq(s, 1, Len(s) - 1), "js") ELSE Append(s, "js")

\* esbuild.buildSync with outdir and sourcemap: the entry file and its map
EsbuildWrite(f, outdir, asset, ext) ==
    LET js == Join(outdir, <<OutFile(asset.input)>>)
        map == Join(outdir, <<Append(OutFile(asset.input), "map")>>)
        d == MkdirP(f, outdir)
    IN  WriteFile(WriteFile(d, js, <<"js", ext, asset.id>>), map, <<"map", ext, asset.id>>)

\* variant: the map over the assets ends after the first asset
MapDone_afterFirst(idx, assets) == idx >= 1

\* assets.map has called its callback for every asset
MapDone(idx, assets) == idx >= Len(assets)

\* one callback of assets.map: transpile the next asset
BuildCompile ==
    /\ pc = "bCompile"
    /\ IF ~MapDone(assetIndex, instructions.assets)
       THEN LET asset == instructions.assets[assetIndex + 1]
                absoluteOutputDirectory == FuncDir(extensionBuildPath(extension), asset.output)
            IN  \E ok \in BOOLEAN :
                   IF ok /\ ~MkdirThrows(fs, absoluteOutputDirectory)
                   THEN /\ fs' = EsbuildWrite(fs, absoluteOutputDirectory, asset, extension)
                        /\ buildFiles' = Append(buildFiles, <<asset.id, absoluteOutputDirectory>>)
                        /\ assetIndex' = assetIndex + 1
                        /\ Goto("bCompile")
                        /\ UNCHANGED <<thrown, failed, fnIndex>>
                   ELSE /\ thrown' = "compile"
                        /\ failed' = failed \cup {"build"}
                        /\ Goto("bCatch")
                        /\ UNCHANGED <<fs, buildFiles, assetIndex, fnIndex>>
       ELSE /\ fnIndex' = 1
            /\ Goto("fLookup")
            /\ UNCHANGED <<fs, buildFiles, assetIndex, thrown, failed>>
    /\ UNCHANGED <<envVars, cliVars, cleanupDirs, depIndex>>
    /\ UNCHANGED <<esbuildDefine, reported>>

\* head of the loop over the functions: look the function's asset up
FunctionLookup ==
    /\ pc = "fLookup"
    /\ IF fnIndex > Len(instructions.functions)
       THEN Goto("bFinish") /\ UNCHANGED <<thrown, failed>>
       ELSE IF FindAsset(instructions.assets, vercelOutputItem.id) = 0
            THEN /\ thrown' = "noAssetConfig"
                 /\ failed' = failed \cup {"build"}
                 /\ Goto("bCatch")
            ELSE Goto("fMkdir") /\ UNCHANGED <<thrown, failed>>
    /\ UNCHANGED <<fs, envVars, cliVars, cleanupDirs, buildFiles, assetIndex, fnIndex, depIndex>>
    /\ UNCHANGED <<esbuildDefine, reported>>

assetConfig == instructions.assets[FindAsset(instructions.assets, vercelOutputItem.id)]

functionOutputDir == FuncDir(extensionOutputPath(extension), assetConfig.output)

\* if (!existsSync(functionOutputDir)) mkdirSync(functionOutputDir)
FunctionMkdir ==
    /\ pc = "fMkdir"
    /\ \E ok \in BOOLEAN :
          IF Exists(fs, functionOutputDir) \/ (ok /\ ~MkdirThrows(fs, functionOutputDir))
          THEN /\ fs' = IF Exists(fs, functionOutputDir) THEN fs ELSE MkdirP(fs, functionOutputDir)
               /\ Goto("fPrimary")
               /\ UNCHANGED <<thrown, failed>>
          ELSE /\ thrown' = "mkdir"
               /\ failed' = failed \cup {"build"}
               /\ Goto("bCatch")
               /\ UNCHANGED fs
    /\ UNCHANGED <<envVars, cliVars, cleanupDirs, buildFiles, assetIndex, fnIndex, depIndex>>
    /\ UNCHANGED <<esbuildDefine, reported>>

\* variant: a copy that does not happen is passed over in silence
ArtifactCopyOutcomes_swallowed(f, files, id, a, dir) ==
    { [ok |-> TRUE, fs |-> f, why |-> "copy"] }

\* copy the artifacts of asset number a, compiled under id, into the function
\* directory: the outcomes of the lookup in buildFiles and of the copy
ArtifactCopyOutcomes(f, files, id, a, dir) ==
    IF FindBuildFile(files, id) = 0
    THEN { [ok |-> FALSE, fs |-> f, why |-> "noBuildArtifacts"] }
    ELSE { [ok |-> o.ok, fs |-> o.fs, why |-> "copy"] :
             o \in CopyOutcomes(f, files[FindBuildFile(files, id)][2],
                                Join(dir, Dirname(a.output)), CopyOpts) }

FunctionPrimary ==
    /\ pc = "fPrimary"
    /\ \E o \in ArtifactCopyOutcomes(fs, buildFiles, vercelOutputItem.id, assetConfig,
                                     functionOutputDir) :
          /\ fs' = o.fs
          /\ IF o.ok
             THEN Goto("fDep") /\ depIndex' = 0 /\ UNCHANGED <<thrown, failed>>
             ELSE /\ Goto("bCatch")
                  /\ thrown' = o.why
                  /\ failed' = failed \cup {"build"}
                  /\ UNCHANGED depIndex
    /\ UNCHANGED <<envVars, cliVars, cleanupDirs, buildFiles, assetIndex, fnIndex>>
    /\ UNCHANGED <<esbuildDefine, reported>>

\* one round of the loop over dependenciesById
FunctionDependency ==
    /\ pc = "fDep"
    /\ IF depIndex < Len(vercelOutputItem.dependenciesById)
       THEN LET dependencyId == vercelOutputItem.dependenciesById[depIndex + 1]
                a == FindAsset(instructions.assets, dependencyId)
            IN  IF a = 0
                THEN /\ thrown' = "noDependencyConfig"
                     /\ failed' = failed \cup {"build"}
                     /\ Goto("bCatch")
                     /\ UNCHANGED <<fs, depIndex>>
                ELSE \E o \in ArtifactCopyOutcomes(fs, buildFiles, dependencyId,
                                                   instructions.assets[a], functionOutputDir) :
                        /\ fs' = o.fs
                        /\ IF o.ok
                           THEN /\ depIndex' = depIndex + 1
                                /\ Goto("fDep")
                                /\ UNCHANGED <<thrown, failed>>
                           ELSE /\ thrown' = o.why
                                /\ failed' = failed \cup {"build"}
                                /\ Goto("bCatch")
                                /\ UNCHANGED depIndex
       ELSE /\ Goto("fConfig")
            /\ UNCHANGED <<fs, depIndex, thrown, failed>>
    /\ UNCHANGED <<envVars, cliVars, cleanupDirs, buildFiles, assetIndex, fnIndex>>
    /\ UNCHANGED <<esbuildDefine, reported>>

configFilePath == Join(functionOutputDir, << <<".vc-config", "json">> >>)

\* JSON.stringify(vcConfig, null, 2): the record, indented by two
VcConfigText(ext, vcConfig) == <<"json-indent-2", ext, vcConfig>>

FunctionConfig ==
    /\ pc = "fConfig"
    /\ \E ok \in BOOLEAN :
          IF ok /\ ~IsDir(fs, configFilePath)
          THEN /\ fs' = WriteFile(fs, configFilePath,
                                  VcConfigText(extension, vercelOutputItem.vcConfig))
               /\ fnIndex' = fnIndex + 1
               /\ depIndex' = 0
               /\ Goto("fLookup")
               /\ UNCHANGED <<thrown, failed>>
          ELSE /\ thrown' = "write"
               /\ failed' = failed \cup {"build"}
               /\ Goto("bCatch")
               /\ UNCHANGED <<fs, fnIndex, depIndex>>
    /\ UNCHANGED <<envVars, cliVars, cleanupDirs, buildFiles, assetIndex>>
    /\ UNCHANGED <<esbuildDefine, reported>>

----------------------------------------------------------------------------
\* the return of buildExtension into the loop of cli.ts

\* variant: the loop goes on after a failed build (no break)
AfterBuild_noBreak(isSuccessful) == "loop"

\* if (!buildResult.isSuccessful) { exitCode = 1; break }
AfterBuild(isSuccessful) == IF isSuccessful THEN "loop" ELSE "buildErr"

\* variant: a failed build leaves exitCode as it is
BuildExitCode_unset(code, isSuccessful) == code

\* if (!buildResult.isSuccessful) { exitCode = 1; ... }
BuildExitCode(code, isSuccessful) == IF isSuccessful THEN code ELSE 1

\* the directories the catch block of buildExtension removes
CatchDirs(dirs) == dirs

\* catch (e): remove cleanupDirs, return isSuccessful false
BuildCatch ==
    /\ pc = "bCatch"
    /\ \E o \in RollbackOutcomes(fs, CatchDirs(cleanupDirs)) :
          /\ fs' = o.fs
          /\ IF o.threw
             THEN /\ Uncaught
                  /\ failed' = failed \cup {"extRollback", o.tag}
                  /\ UNCHANGED <<extensionsOutputs, exitCode, buildVars>>
             ELSE /\ extensionsOutputs' =
                        Append(extensionsOutputs, BuildResult(cleanupDirs, extension, FALSE))
                  /\ exitCode' = BuildExitCode(exitCode, FALSE)
                  /\ Goto(AfterBuild(FALSE))
                  /\ DropLocals
                  /\ UNCHANGED failed
    /\ UNCHANGED <<envVars, config, cleanupDirectories, extensionsDirectories,
                   indexExtension, mergeIndex>>
    /\ UNCHANGED <<esbuildDefine, reported>>

\* after the try block: remove the build directory, return isSuccessful true
BuildFinish ==
    /\ pc = "bFinish"
    /\ \E o \in RmOutcomes(fs, extensionBuildPath(extension)) :
          /\ fs' = o.fs
          /\ IF o.ok
             THEN /\ extensionsOutputs' =
                        Append(extensionsOutputs, BuildResult(cleanupDirs, extension, TRUE))
                  /\ Goto(AfterBuild(TRUE))
                  /\ DropLocals
                  /\ UNCHANGED failed
             ELSE /\ Uncaught
                  /\ failed' = failed \cup {"extFinish", o.tag}
                  /\ UNCHANGED <<extensionsOutputs, buildVars>>
    /\ UNCHANGED <<envVars, config, exitCode, cleanupDirectories, extensionsDirectories,
                   indexExtension, mergeIndex>>
    /\ UNCHANGED <<esbuildDefine, reported>>

----------------------------------------------------------------------------
\* cli.ts after the build loop

\* [...cleanupDirectories, VERCEL_DIR]
RollbackDirs(cleanup) == Append(cleanup, VERCEL_DIR)

\* the error handling after the builds and, again, after the merge
ErrorHandling(next) ==
    IF exitCode # 0
    THEN \E o \in RollbackOutcomes(fs, RollbackDirs(cleanupDirectories)) :
            /\ fs' = o.fs
            /\ failed' = IF o.threw THEN failed \cup {"rollback", o.tag} ELSE failed
            /\ reported' = IF o.threw
                           THEN reported \cup CleanupMessage(cleanupDirectories)
                           ELSE reported
            /\ Exit(exitCode)
    ELSE /\ Goto(next)
         /\ UNCHANGED <<fs, failed, reported>>

BuildErr ==
    /\ pc = "buildErr"
    /\ ErrorHandling("merge")
    /\ mergeIndex' = IF exitCode # 0 THEN mergeIndex ELSE 1
    /\ UNCHANGED <<envVars, config, exitCode, cleanupDirectories, extensionsDirectories,
                   extensionsOutputs, indexExtension, buildVars>>
    /\ UNCHANGED esbuildDefine

\* exitCode after a merge copy that did or did not throw
MergeExitCode(code, ok) == IF ok THEN code ELSE 1

\* one round of the loop over extensionsOutputs
MergeStep ==
    /\ pc = "merge"
    /\ IF mergeIndex <= Len(extensionsOutputs)
       THEN \E o \in CopyOutcomes(fs, extensionsOutputs[mergeIndex].outputDirectory,
                                  functionsDir, CopyOpts) :
               /\ fs' = o.fs
               /\ exitCode' = MergeExitCode(exitCode, o.ok)
               /\ failed' = IF o.ok THEN failed ELSE failed \cup {"merge"}
               /\ mergeIndex' = mergeIndex + 1
               /\ Goto("merge")
       ELSE /\ Goto("mergeErr")
            /\ UNCHANGED <<fs, exitCode, failed, mergeIndex>>
    /\ UNCHANGED <<envVars, config, cleanupDirectories, extensionsDirectories,
                   extensionsOutputs, indexExtension, buildVars>>
    /\ UNCHANGED <<esbuildDefine, reported>>

MergeErr ==
    /\ pc = "mergeErr"
    /\ ErrorHandling("manifest")
    /\ UNCHANGED <<envVars, cliVars, buildVars>>
    /\ UNCHANGED esbuildDefine

\* vercel-config.json of the package, as copied
ManifestText == <<"manifest", "", "vercel-config">>

\* exitCode after the catch block around the copy of config.json
ManifestExitCode(code, ok) == code

\* fs.cpSync(vercel-config.json, config.json) inside try/catch
Manifest ==
    /\ pc = "manifest"
    /\ \E ok \in BOOLEAN :
          IF ok /\ IsDir(fs, VERCEL_BUILD_OUTPUT) /\ ~IsDir(fs, manifestPath)
          THEN /\ fs' = WriteFile(fs, manifestPath, ManifestText)
               /\ exitCode' = ManifestExitCode(exitCode, TRUE)
               /\ UNCHANGED failed
          ELSE /\ exitCode' = ManifestExitCode(exitCode, FALSE)
               /\ failed' = failed \cup {"manifest"}
               /\ UNCHANGED fs
    /\ Goto("cleanup")
    /\ UNCHANGED <<envVars, config, cleanupDirectories, extensionsDirectories,
                   extensionsOutputs, indexExtension, mergeIndex, buildVars>>
    /\ UNCHANGED <<esbuildDefine, reported>>

\* a final clean up that removes nothing
FinalCleanupDirs_none(cleanup) == <<>>

\* the directories the final clean up removes
FinalCleanupDirs(cleanup) == cleanup

\* Clean up, then the script ends: the status is process.exitCode, never set
Cleanup ==
    /\ pc = "cleanup"
    /\ \E o \in RollbackOutcomes(fs, FinalCleanupDirs(cleanupDirectories)) :
          /\ fs' = o.fs
          /\ failed' = IF o.threw THEN failed \cup {"cleanup", o.tag} ELSE failed
          /\ reported' = IF o.threw
                         THEN reported \cup CleanupMessage(cleanupDirectories)
                         ELSE reported
    /\ pc' = "done"
    /\ uncaught' = FALSE
    /\ exitStatus' = 0
    /\ UNCHANGED <<envVars, cliVars, buildVars>>
    /\ UNCHANGED esbuildDefine

----------------------------------------------------------------------------
Next ==
    \/ LoadConfig
    \/ CheckStatic
    \/ CleanOutput
    \/ CleanTmp
    \/ CopyStatic
    \/ StaticCatch
    \/ StaticErr
    \/ Loop
    \/ BuildInit
    \/ BuildRequire
    \/ BuildCompile
    \/ FunctionLookup
    \/ FunctionMkdir
    \/ FunctionPrimary
    \/ FunctionDependency
    \/ FunctionConfig
    \/ BuildCatch
    \/ BuildFinish
    \/ BuildErr
    \/ MergeStep
    \/ MergeErr
    \/ Manifest
    \/ Cleanup

Spec == Init /\ [][Next]_vars

----------------------------------------------------------------------------
\* The script started again in the tree the previous run left

\* the tree at the output root, relative to it
OutputTree(f) ==
    [ r \in RelTree(f, VERCEL_BUILD_OUTPUT) |-> f[Join(VERCEL_BUILD_OUTPUT, r)] ]

\* the first run ended; the same command is run a second time: same
\* configuration file, same package, the working tree as the first run left it
Rerun ==
    /\ pc = "done"
    /\ run = 1
    /\ run' = 2
    /\ lastOutput' = IF failed = {} THEN OutputTree(fs) ELSE lastOutput
    /\ fs0' = fs
    /\ pc' = "loadConfig"
    /\ config' = DefaultConfig
    /\ exitCode' = 0
    /\ cleanupDirectories' = <<>>
    /\ extensionsDirectories' = <<>>
    /\ extensionsOutputs' = <<>>
    /\ indexExtension' = 0
    /\ mergeIndex' = 0
    /\ DropLocals
    /\ esbuildDefine' = NoDefine
    /\ reported' = {}
    /\ exitStatus' = 0
    /\ uncaught' = FALSE
    /\ failed' = {}
    /\ UNCHANGED <<fs, configFile, userConfig, descr>>

NextTwice ==
    \/ Next
    \/ Rerun

SpecTwice == Init /\ [][NextTwice]_vars

----------------------------------------------------------------------------
\* Vocabulary of the properties

Done == pc = "done"

TmpRootCreated == Len(cleanupDirectories) > 0

\* an I/O error stopped a removal (a locked file, a permission)
RemovalFaulted == "rmFault" \in failed

EffectiveConfig == LoadedConfig(configFile, userConfig)

StaticDir0 == StaticAssetsDir(EffectiveConfig)

\* the function directories an extension's descriptor declares, below root
FunctionDirsOf(ext, root) ==
    { FuncDir(root, descr[ext].assets[FindAsset(descr[ext].assets, fn.id)].output) :
        fn \in { g \in SeqRange(descr[ext].functions) : FindAsset(descr[ext].assets, g.id) # 0 } }

StaticCopied ==
    \A r \in RelTree(fs0, StaticDir0) : Exists(fs, Join(staticFilesOutputDir, r))

FunctionsMerged ==
    \A i \in 1..Len(extensionsOutputs) :
        \A d \in FunctionDirsOf(extensionsDirectories[i], functionsDir) :
            IsFile(fs, Join(d, << <<".vc-config", "json">> >>))

ManifestWritten == Exists(fs, manifestPath) /\ fs[manifestPath] = ManifestText

OutputAbsent == ~Exists(fs, VERCEL_BUILD_OUTPUT)

OutputComplete == StaticCopied /\ FunctionsMerged /\ ManifestWritten

\* the failure points of the pipeline's stages
StageFailures ==
    {"staticMissing", "outputRoot", "tmpRoot", "staticCopy", "build", "merge", "manifest"}

\* the statements of buildExtension
BuildPcs ==
    {"bInit", "bRequire", "bCompile", "fLookup", "fMkdir", "fPrimary", "fDep", "fConfig",
     "bCatch", "bFinish"}

----------------------------------------------------------------------------
\* C1 (as claimed): when the process ends after the static check, whatever
\* stage failed, the platform output root is absent or complete (static
\* subtree, the function directories of every built extension, config.json).
C1_AbsentOrComplete ==
    (Done /\ "staticMissing" \notin failed /\ ~RemovalFaulted)
        => (OutputAbsent \/ OutputComplete)

\* C2 (as claimed): after a run that fails, the working tree is exactly the
\* tree before the run.
C2_FailedRunRestoresTree ==
    (Done /\ exitStatus # 0 /\ ~RemovalFaulted) => fs = fs0

\* C3 (as claimed): at every exit reached after the temporary root was
\* created, the temporary root is gone, provided no removal was stopped by
\* an I/O error.
C3_TmpRootRemovedAtExit ==
    (Done /\ TmpRootCreated /\ ~RemovalFaulted) => ~Exists(fs, TMP_DIR)

\* C4 (as claimed): a run in which any stage failed exits with a non-zero
\* status; status 0 means no stage failed.
C4_FailureMeansNonZeroExit ==
    (Done /\ failed \cap StageFailures # {}) => exitStatus # 0

\* C5: when the static-asset directory does not exist the run ends at the
\* check with a non-zero status: the working tree is never touched and no
\* extension is built.
C5_MissingStaticFailsImmediately ==
    ~Exists(fs0, StaticDir0) =>
        /\ fs = fs0
        /\ pc \in {"loadConfig", "checkStatic", "done"}
        /\ indexExtension = 0
        /\ extensionsOutputs = <<>>
        /\ cleanupDirectories = <<>>
        /\ (Done => exitStatus # 0 /\ failed = {"staticMissing"})

\* the run ended at the static check and a stale output tree is still there
C5_Witness ==
    /\ Done
    /\ "staticMissing" \in failed
    /\ Exists(fs, manifestPath)
    /\ Exists(fs, TMP_DIR)

\* the function directories of the extensions from position k on
LaterFunctionDirs(k) ==
    UNION { FunctionDirsOf(extensionsDirectories[j], functionsDir) :
              j \in k..Len(extensionsDirectories) }

\* a file of the extensions from position k on lies in the output tree
LaterFilesInOutput(k) ==
    \E q \in DOMAIN fs :
        /\ IsPrefix(VERCEL_BUILD_OUTPUT, q)
        /\ \E j \in k..Len(extensionsDirectories) : fs[q][2] = extensionsDirectories[j]

\* C6: once the try block of extension k has thrown (compile or assembly),
\* only its catch block, the error handling and the exit follow, so no later
\* extension is built; no function directory or file of extension k or of a
\* later one is in the platform output tree; and the process ends with a
\* non-zero status and the temporary root, with every scratch directory in
\* it, removed (unless an I/O error stopped a removal).
C6_BuildFailureStopsAndRollsBack ==
    "build" \in failed =>
        /\ pc \in {"bCatch", "buildErr", "done"}
        /\ Len(extensionsOutputs) <= indexExtension
        /\ \A d \in LaterFunctionDirs(indexExtension) : ~Exists(fs, d)
        /\ ~LaterFilesInOutput(indexExtension)
        /\ (Done /\ ~RemovalFaulted) =>
              /\ exitStatus # 0
              /\ ~Exists(fs, TMP_DIR)
              /\ Len(extensionsOutputs) = indexExtension

\* the first of two extensions failed to build: the second was never built
C6_Witness ==
    /\ Done
    /\ "build" \in failed
    /\ Len(extensionsDirectories) = 2
    /\ indexExtension = 1
    /\ Len(extensionsOutputs) = 1
    /\ ~Exists(fs, TMP_DIR)

\* the second of two extensions failed to build after the first succeeded
C6_WitnessSecond ==
    /\ Done
    /\ "build" \in failed
    /\ Len(extensionsOutputs) = 2
    /\ extensionsOutputs[1].isSuccessful
    /\ ~Exists(fs, TMP_DIR)

\* the merge loop is about to copy an extension's output onto files that an
\* earlier extension put into the functions subtree
MergeCollision ==
    /\ pc = "merge"
    /\ mergeIndex <= Len(extensionsOutputs)
    /\ CpCollides(fs, extensionsOutputs[mergeIndex].outputDirectory, functionsDir)

\* C7 (as claimed): a merge copy that meets colliding paths throws, so the
\* run is marked failed and nothing of the first extension is overwritten.
C7_MergeCollisionFails ==
    [][MergeCollision => (exitCode' = 1 /\ "merge" \in failed')]_vars

\* the lookup of a dependency id has just thrown
UnknownDependencyDetected == pc = "bCatch" /\ thrown = "noDependencyConfig"

\* a function of an enabled extension lists a dependency that is no asset
HasUnknownDependency ==
    \E e \in SeqRange(EnabledDirectories(EffectiveConfig)) :
        \E fn \in SeqRange(descr[e].functions) :
            /\ FindAsset(descr[e].assets, fn.id) # 0
            /\ \E d \in SeqRange(fn.dependenciesById) : FindAsset(descr[e].assets, d) = 0

FilesBelow(f, p) == { q \in DOMAIN f : IsPrefix(p, q) /\ f[q] # DirC }

\* C8 (as claimed): when the unknown dependency id is detected nothing has
\* been compiled, no function directory exists in the scratch output area and
\* nothing has been written to the platform output root.
C8_FailsBeforeAnyOutput ==
    UnknownDependencyDetected =>
        /\ buildFiles = <<>>
        /\ FilesBelow(fs, extensionBuildPath(extension)) = {}
        /\ \A q \in DOMAIN fs : IsPrefix(extensionOutputPath(extension), q)
                                    => q = extensionOutputPath(extension)
        /\ FilesBelow(fs, VERCEL_BUILD_OUTPUT) = {}

\* C8 (amended): the run fails, but after output was written: when the
\* unknown dependency id is detected every declared asset has been compiled,
\* the function's directory exists in the scratch output area with its
\* primary artifact in it, and the platform output root holds the static
\* copy and no functions subtree; the run then ends with a non-zero status.
C8_FailsAfterCompileBeforeMerge ==
    /\ UnknownDependencyDetected =>
          /\ assetIndex = Len(instructions.assets)
          /\ \A i \in 1..Len(instructions.assets) :
                FilesBelow(fs, FuncDir(extensionBuildPath(extension),
                                       instructions.assets[i].output)) # {}
          /\ Exists(fs, functionOutputDir)
          /\ FilesBelow(fs, functionOutputDir) # {}
          /\ StaticCopied
          /\ ~Exists(fs, functionsDir)
    /\ (Done /\ HasUnknownDependency) => exitStatus # 0

C8_Witness ==
    /\ UnknownDependencyDetected
    /\ FilesBelow(fs, functionOutputDir) # {}
    /\ FilesBelow(fs, staticFilesOutputDir) # {}

\* the next copy of the assembly lands on a file that is already there
AssemblyCollision ==
    \/ /\ pc = "fPrimary"
       /\ FindBuildFile(buildFiles, vercelOutputItem.id) # 0
       /\ CpCollides(fs, buildFiles[FindBuildFile(buildFiles, vercelOutputItem.id)][2],
                     Join(functionOutputDir, Dirname(assetConfig.output)))
    \/ /\ pc = "fDep"
       /\ depIndex < Len(vercelOutputItem.dependenciesById)
       /\ LET id == vercelOutputItem.dependenciesById[depIndex + 1]
          IN  /\ FindAsset(instructions.assets, id) # 0
              /\ FindBuildFile(buildFiles, id) # 0
              /\ CpCollides(fs, buildFiles[FindBuildFile(buildFiles, id)][2],
                            Join(functionOutputDir,
                                 Dirname(instructions.assets[
                                     FindAsset(instructions.assets, id)].output)))

\* C9 (as claimed): a copy whose destination file exists throws, so the
\* extension build goes to its catch block and the file is not replaced.
C9_CopyNeverOverwrites ==
    [][AssemblyCollision => (pc' = "bCatch" /\ thrown' = "copy" /\ fs' = fs)]_vars

\* every declared function of ext is assembled below its output directory
FullyAssembled(f, ext) ==
    \A fn \in SeqRange(descr[ext].functions) :
        LET a == descr[ext].assets[FindAsset(descr[ext].assets, fn.id)]
            dir == FuncDir(extensionOutputPath(ext), a.output)
        IN  /\ IsFile(f, Join(dir, << <<".vc-config", "json">> >>))
            /\ IsFile(f, Join(Join(dir, Dirname(a.output)), <<OutFile(a.input)>>))
            /\ \A d \in SeqRange(fn.dependenciesById) :
                  LET b == descr[ext].assets[FindAsset(descr[ext].assets, d)]
                  IN  IsFile(f, Join(Join(dir, Dirname(b.output)), <<OutFile(b.input)>>))

ReturnedSuccess(f, outs, ext) ==
    /\ outs[Len(outs)] =
          BuildResult(<<extensionBuildPath(ext), extensionOutputPath(ext)>>, ext, TRUE)
    /\ ~Exists(f, extensionBuildPath(ext))
    /\ Exists(f, extensionOutputPath(ext))
    /\ FullyAssembled(f, ext)

ReturnedFailed(f, outs, ext) ==
    /\ outs[Len(outs)] =
          BuildResult(<<extensionBuildPath(ext), extensionOutputPath(ext)>>, ext, FALSE)
    /\ ~Exists(f, extensionBuildPath(ext))
    /\ ~Exists(f, extensionOutputPath(ext))

\* C10 (as claimed): a call of buildExtension ends by returning, in exactly
\* one of the outcomes success and failed, with both scratch directories in
\* cleanupDirectories and the scratch output path as outputDirectory.
C10_TwoOutcomes ==
    [][(pc \in BuildPcs /\ pc' \notin BuildPcs /\ "rmFault" \notin failed') =>
          /\ Len(extensionsOutputs') = Len(extensionsOutputs) + 1
          /\ \/ ReturnedSuccess(fs', extensionsOutputs', extension)
             \/ ReturnedFailed(fs', extensionsOutputs', extension)]_vars

----------------------------------------------------------------------------
\* the extensions the configuration enables, as the run finds them installed
EnabledInstalled == { e \in SeqRange(installed) : e \in EnabledBy(EffectiveConfig) }

\* the static files are in the output with the content they have in the source
StaticCopiedVerbatim ==
    \A r \in RelTree(fs0, StaticDir0) :
        /\ Exists(fs, Join(staticFilesOutputDir, r))
        /\ fs[Join(staticFilesOutputDir, r)] = fs0[Join(StaticDir0, r)]

\* every function directory of every enabled extension is in the output
AllFunctionsInOutput ==
    \A ext \in EnabledInstalled :
        \A d \in FunctionDirsOf(ext, functionsDir) :
            IsDir(fs, d) /\ IsFile(fs, Join(d, << <<".vc-config", "json">> >>))

\* C11: a run in which no operation fails exits with status 0 and leaves the
\* static files under .vercel/output/static, every function directory of
\* every enabled extension under .vercel/output/functions, the manifest at
\* .vercel/output/config.json, and no temporary root directory.
C11_CleanRunLeavesFullOutput ==
    (Done /\ failed = {}) =>
        /\ exitStatus = 0
        /\ StaticCopiedVerbatim
        /\ AllFunctionsInOutput
        /\ ManifestWritten
        /\ ~Exists(fs, TMP_DIR)

C11_Witness ==
    /\ Done
    /\ failed = {}
    /\ Cardinality(EnabledInstalled) = 2
    /\ Len(extensionsOutputs) = 2
    /\ RelTree(fs0, StaticDir0) # {}

----------------------------------------------------------------------------
\* The output a source tree, a configuration and the descriptors determine

AssetById(ext, id) == descr[ext].assets[FindAsset(descr[ext].assets, id)]

\* the two files the compiler writes for asset a, placed in dir
CompiledFiles(ext, a, dir) ==
    (Join(dir, <<OutFile(a.input)>>) :> <<"js", ext, a.id>>)
    @@ (Join(dir, <<Append(OutFile(a.input), "map")>>) :> <<"map", ext, a.id>>)

RECURSIVE MergeSeq(_)
\* the trees of a sequence laid over one another, later ones on top
MergeSeq(ts) ==
    IF ts = <<>> THEN EmptyTree
    ELSE Merge(MergeSeq(SubSeq(ts, 1, Len(ts) - 1)), ts[Len(ts)])

\* the assets whose files a function directory holds: primary, then dependencies
PartsOf(ext, fn) ==
    <<AssetById(ext, fn.id)>>
        \o [i \in 1..Len(fn.dependenciesById) |-> AssetById(ext, fn.dependenciesById[i])]

\* one function directory, relative to the functions root
FunctionTree(ext, fn) ==
    LET dir == FuncDir(<<>>, AssetById(ext, fn.id).output)
        parts == PartsOf(ext, fn)
        placed == [i \in 1..Len(parts) |->
                     LET to == Join(dir, Dirname(parts[i].output))
                     IN  TreeOf(Prefixes(to), CompiledFiles(ext, parts[i], to))]
    IN  Merge(Merge(TreeOf(Prefixes(dir), <<>>), MergeSeq(placed)),
              Join(dir, << <<".vc-config", "json">> >>) :> VcConfigText(ext, fn.vcConfig))

\* the function directories of one extension
ExtensionTree(ext) ==
    MergeSeq([i \in 1..Len(descr[ext].functions) |-> FunctionTree(ext, descr[ext].functions[i])])

\* tree t, given relative to root, at root
Rebase(t, root) ==
    [ q \in { Join(root, r) : r \in DOMAIN t } |-> t[SubSeq(q, Len(root) + 1, Len(q))] ]

\* the output root as the source alone determines it
ExpectedOutput ==
    LET exts == EnabledDirectories(EffectiveConfig)
        static == [ r \in RelTree(fs0, StaticDir0) |-> fs0[Join(StaticDir0, r)] ]
        functions == MergeSeq([i \in 1..Len(exts) |-> ExtensionTree(exts[i])])
    IN  Merge(Merge(Merge(TreeOf(Prefixes(functionsDir), <<>>),
                          Rebase(static, staticFilesOutputDir)),
                    Rebase(functions, functionsDir)),
              manifestPath :> ManifestText)

\* no operation of the run failed
CleanRun == Done /\ failed = {}

\* C12: the output tree of a successful run is the one the source tree, the
\* configuration and the descriptors determine, whatever an earlier run
\* (successful or failed) left at the output root, the temporary root or the
\* scratch directories; so a second successful run in a row yields the output
\* tree of the first.
C12_OutputIndependentOfLeftovers ==
    CleanRun =>
        /\ OutputTree(fs) = OutputTree(ExpectedOutput)
        /\ lastOutput # NoOutput => OutputTree(fs) = lastOutput

C12_Witness ==
    /\ CleanRun
    /\ run = 2
    /\ lastOutput # NoOutput
    /\ Exists(fs0, manifestPath)
    /\ Len(extensionsOutputs) = 2

\* a successful run right after a failed one that left the temporary root behind
C12_WitnessAfterFailure ==
    /\ CleanRun
    /\ run = 2
    /\ lastOutput = NoOutput
    /\ Exists(fs0, TMP_DIR)

----------------------------------------------------------------------------
\* JSON.parse of a text JSON.stringify wrote: the record
ParseJson(text) == text[3]

\* the extension of the example: assets mw -> middleware.js and
\* cfg -> auth.config.js, one function mw that depends on cfg, runtime edge
ExampleDescriptor ==
    Descriptor(<<Asset("mw", << <<"middleware", "ts">> >>, << <<"middleware", "js">> >>),
                 Asset("cfg", << <<"auth", "config", "ts">> >>, << <<"auth", "config", "js">> >>)>>,
               <<Function("mw", <<"cfg">>, "edge")>>)

\* .vercel/output/functions/<name>
InFunctions(name) == << <<".vercel">>, <<"output">>, <<"functions">>, name >>

\* .vercel/output/functions/middleware.func/<name>
InMiddlewareFunc(name) == Append(InFunctions(<<"middleware", "func">>), name)

\* the enabled extensions that declare the function directory dir
Owners(dir) == { ext \in EnabledInstalled : dir \in FunctionDirsOf(ext, functionsDir) }

\* the directories named *.func below the functions root
FuncDirsInOutput ==
    { p \in DOMAIN fs :
        /\ IsPrefix(functionsDir, p)
        /\ Len(p) > Len(functionsDir)
        /\ IsDir(fs, p)
        /\ LastSeg(p)[Len(LastSeg(p))] = "func" }

\* the function directory of fn is named after its primary's output and holds
\* the primary's file, every dependency's file and the descriptor
HoldsFunction(ext, fn) ==
    LET primary == AssetById(ext, fn.id)
        dir == Join(Join(functionsDir, Dirname(primary.output)),
                    <<Append(BasenameJs(primary.output), "func")>>)
        parts == PartsOf(ext, fn)
        vc == Join(dir, << <<".vc-config", "json">> >>)
    IN  /\ IsDir(fs, dir)
        /\ \A i \in 1..Len(parts) :
              LET file == Join(Join(dir, Dirname(parts[i].output)), <<OutFile(parts[i].input)>>)
              IN  /\ IsFile(fs, file)
                  /\ fs[file][1] = "js"
                  /\ fs[file][3] = parts[i].id
                  /\ Owners(dir) = {ext} => fs[file][2] = ext
        /\ IsFile(fs, vc)
        /\ Owners(dir) = {ext} => ParseJson(fs[vc]) = fn.vcConfig

\* the run built the example extension and no other extension shares its
\* function directory
ExampleBuilt ==
    /\ CleanRun
    /\ "authentication" \in EnabledInstalled
    /\ descr["authentication"] = ExampleDescriptor
    /\ Owners(InFunctions(<<"middleware", "func">>)) = {"authentication"}

\* C13: for the example extension a successful run produces
\* functions/middleware.func with middleware.js, auth.config.js and a
\* .vc-config.json that holds exactly the vcConfig record; in general each
\* function directory is named after its primary asset's output base name
\* plus .func and holds the primary's file, every dependency's file and the
\* descriptor, and an asset that is only a dependency gets no directory.
C13_FunctionDirectoryLayout ==
    /\ ExampleBuilt =>
          /\ IsDir(fs, InFunctions(<<"middleware", "func">>))
          /\ IsFile(fs, InMiddlewareFunc(<<"middleware", "js">>))
          /\ fs[InMiddlewareFunc(<<"middleware", "js">>)] = <<"js", "authentication", "mw">>
          /\ IsFile(fs, InMiddlewareFunc(<<"auth", "config", "js">>))
          /\ fs[InMiddlewareFunc(<<"auth", "config", "js">>)] = <<"js", "authentication", "cfg">>
          /\ IsFile(fs, InMiddlewareFunc(<<".vc-config", "json">>))
          /\ ParseJson(fs[InMiddlewareFunc(<<".vc-config", "json">>)]) = "edge"
          /\ ~Exists(fs, InFunctions(<<"auth", "config", "func">>))
    /\ CleanRun =>
          /\ \A ext \in EnabledInstalled :
                \A i \in 1..Len(descr[ext].functions) : HoldsFunction(ext, descr[ext].functions[i])
          /\ FuncDirsInOutput = UNION { FunctionDirsOf(ext, functionsDir) : ext \in EnabledInstalled }

C13_Witness ==
    /\ ExampleBuilt
    /\ Len(extensionsOutputs) = 2

----------------------------------------------------------------------------
\* the defaults, spelled out: directory build, authentication enabled, each
\* environment-variable name mapped to itself
BuiltInDefaults ==
    [staticDirectory |-> "build",
     extensions |-> <<"authentication">>,
     authentication |->
        [provider |-> "microsoft-entra-id",
         environmentVariables |->
            ("AUTH_MICROSOFT_ENTRA_CLIENT_ID" :> "AUTH_MICROSOFT_ENTRA_CLIENT_ID")
            @@ ("AUTH_MICROSOFT_ENTRA_ID_SECRET" :> "AUTH_MICROSOFT_ENTRA_ID_SECRET")
            @@ ("AUTH_MICROSOFT_ENTRA_ID_TENANT_ID" :> "AUTH_MICROSOFT_ENTRA_ID_TENANT_ID")
            @@ ("AUTH_SECRET" :> "AUTH_SECRET")]]

\* the statements after the loading of the configuration
AfterLoadConfig == pc # "loadConfig"

\* C14: when the configuration file is absent or does not parse, the
\* effective configuration is the built-in defaults, and the run goes on to
\* the later stages: loading never ends the process, and a run in which no
\* operation fails ends with status 0 and the output of the defaults.
C14_FallbackToDefaults ==
    configFile # "valid" =>
        /\ AfterLoadConfig => config = BuiltInDefaults
        /\ (Done /\ ~Exists(fs0, StaticAssetsDir(BuiltInDefaults))) => "staticMissing" \in failed
        /\ (Done /\ Exists(fs0, StaticAssetsDir(BuiltInDefaults))) => TmpRootCreated \/ failed # {}
        /\ CleanRun => exitStatus = 0 /\ EnabledInstalled = {"authentication"} /\ ManifestWritten

C14_Witness ==
    /\ configFile = "malformed"
    /\ CleanRun
    /\ config = BuiltInDefaults
    /\ userConfig # BuiltInDefaults

C14_WitnessAbsent ==
    /\ configFile = "absent"
    /\ CleanRun
    /\ config = BuiltInDefaults

----------------------------------------------------------------------------
\* the enabled extensions in the order the configuration declares them
DeclarationOrder == SelectSeq(config.extensions, LAMBDA e : e \in SeqRange(installed))

\* the enabled extensions in the order the extensions directory lists them
ReaddirOrder == SelectSeq(installed, LAMBDA e : e \in EnabledBy(config))

\* the builds go through order one at a time and end at the first failure
BuildsFollow(order) ==
    /\ pc \in BuildPcs =>
          /\ indexExtension <= Len(order)
          /\ extension = order[indexExtension]
          /\ Len(extensionsOutputs) = indexExtension - 1
    /\ \A i \in 1..Len(extensionsOutputs) :
          /\ i <= Len(order)
          /\ extensionsOutputs[i].outputDirectory = extensionOutputPath(order[i])
          /\ ~extensionsOutputs[i].isSuccessful =>
                /\ i = Len(extensionsOutputs)
                /\ pc \notin BuildPcs \cup {"loop"}

\* C15 (as claimed): the enabled extensions are built one at a time in the
\* order in which the configuration's extensions record declares them, and
\* the loop stops at the first extension whose build fails.
C15_BuiltInDeclarationOrder == BuildsFollow(DeclarationOrder)

\* C15 (amended): the enabled extensions are built one at a time in the
\* order in which the package's extensions directory lists them, and the loop
\* stops at the first extension whose build fails.
C15_BuiltInReaddirOrder == BuildsFollow(ReaddirOrder)

C15_Witness ==
    /\ DeclarationOrder # ReaddirOrder
    /\ Len(extensionsOutputs) = 2
    /\ extensionsOutputs[1].isSuccessful
    /\ ~extensionsOutputs[2].isSuccessful

----------------------------------------------------------------------------
\* the directories a run creates at the top of the working tree
RunDirectories == {TMP_DIR, VERCEL_DIR, VERCEL_BUILD_OUTPUT}

\* d was not there when the run started and is there now
CreatedAndRemaining(d) == ~Exists(fs0, d) /\ Exists(fs, d)

\* a message told the operator to delete d, or a directory that holds d
NamedInMessage(d) == \E r \in reported : IsPrefix(r, d)

\* C16 (as claimed): when a rollback or cleanup removal itself fails, the run
\* still exits with a non-zero status and every directory the run created
\* that still exists at exit (temporary root, platform directory, output
\* root) is named in the reported message.
C16_RemainingDirectoriesReported ==
    (Done /\ RemovalFaulted) =>
        /\ exitStatus # 0
        /\ \A d \in RunDirectories : CreatedAndRemaining(d) => NamedInMessage(d)

----------------------------------------------------------------------------
\* the four placeholders of the authentication extension
Placeholders ==
    { <<"process", "env", "AUTH_MICROSOFT_ENTRA_CLIENT_ID">>,
      <<"process", "env", "AUTH_MICROSOFT_ENTRA_ID_SECRET">>,
      <<"process", "env", "AUTH_MICROSOFT_ENTRA_ID_TENANT_ID">>,
      <<"process", "env", "AUTH_SECRET">> }

\* the environmentVariables object of the effective configuration
Designations == EffectiveConfig.authentication.environmentVariables

\* buildExtension is running for the extension the loop is at
Building == pc \in BuildPcs

C17_WitnessOther ==
    /\ pc = "bCompile"
    /\ extension = "billing"
    /\ esbuildDefine = NoDefine

----------------------------------------------------------------------------
\* the statements of the compile phase and of the assembly phase
CompilePcs == {"bRequire", "bCompile"}

AssemblyPcs == {"fLookup", "fMkdir", "fPrimary", "fDep", "fConfig"}

\* nothing has been put into the scratch output directory of the extension
NothingAssembled ==
    \A p \in DOMAIN fs :
        IsPrefix(extensionOutputPath(extension), p) => p = extensionOutputPath(extension)

\* the compiler has run for every declared asset of the extension
EveryAssetCompiled ==
    /\ assetIndex = Len(instructions.assets)
    /\ \A i \in 1..Len(instructions.assets) :
          \E j \in 1..Len(buildFiles) :
              /\ buildFiles[j][1] = instructions.assets[i].id
              /\ IsFile(fs, Join(buildFiles[j][2], <<OutFile(instructions.assets[i].input)>>))

\* C18: within one extension build the phases never interleave: while the
\* assets are compiled no function directory exists and nothing is copied;
\* the assembly runs only after the compiler has finished every declared
\* asset; a compiler error on any asset takes the build straight to its
\* failure handling with no function assembled.
C18_CompileThenAssemble ==
    /\ pc \in CompilePcs => NothingAssembled
    /\ pc \in AssemblyPcs => EveryAssetCompiled
    /\ thrown = "compile" => pc \in {"bCatch", "done"} /\ fnIndex = 0 /\ NothingAssembled

\* the second asset fails to compile after the first one compiled
C18_Witness ==
    /\ thrown = "compile"
    /\ assetIndex = 1
    /\ Len(instructions.assets) = 2
    /\ \E fn \in SeqRange(instructions.functions) : fn.id = instructions.assets[1].id

\* the assembly at work after both assets compiled
C18_WitnessAssembly ==
    /\ pc = "fDep"
    /\ depIndex = 1
    /\ Len(instructions.assets) = 2

----------------------------------------------------------------------------
\* an operation of a stage has failed
StageFailed == failed \cap StageFailures # {}

\* the only steps left are the removals of the error handling and the end
OnlyCleanupLeft ==
    \/ pc \in {"staticCatch", "staticErr", "bCatch", "buildErr", "mergeErr", "cleanup", "done"}
    \/ pc = "merge" /\ mergeIndex > Len(extensionsOutputs)

\* C19 (as claimed): after the first failing operation of any stage no
\* further build, merge copy or manifest copy is performed; only cleanup
\* removals run before the process ends.
C19_NothingAfterFirstFailure == StageFailed => OnlyCleanupLeft

----------------------------------------------------------------------------
\* id is the id of a declared asset of ext
KnownId(ext, id) == \E a \in SeqRange(descr[ext].assets) : a.id = id

\* a function of ext, or one of its dependencies, names an id that is no asset
BadReference(ext) ==
    \E fn \in SeqRange(descr[ext].functions) :
        \/ ~KnownId(ext, fn.id)
        \/ \E d \in SeqRange(fn.dependenciesById) : ~KnownId(ext, d)

\* the function directories ext declares below the functions root
DeclaredDirs(ext) ==
    { Join(Join(functionsDir, Dirname(a.output)), <<Append(BasenameJs(a.output), "func")>>) :
        a \in { b \in SeqRange(descr[ext].assets) :
                   \E fn \in SeqRange(descr[ext].functions) : fn.id = b.id } }

\* nothing of ext is in the platform output tree
NothingInOutputOf(ext) ==
    /\ \A p \in DOMAIN fs : IsPrefix(functionsDir, p) => fs[p][2] # ext
    /\ \A d \in DeclaredDirs(ext) :
          Exists(fs, d) => \E o \in EnabledInstalled \ {ext} : d \in DeclaredDirs(o)

\* the lookup of a function id or of a dependency id found no asset
BadReferenceThrown == thrown \in {"noAssetConfig", "noDependencyConfig"}

\* the dependencies the loop has passed are assets, with their files copied
PassedDependenciesCopied ==
    \A j \in 1..depIndex :
        /\ KnownId(extension, vercelOutputItem.dependenciesById[j])
        /\ \E a \in SeqRange(instructions.assets) :
              /\ a.id = vercelOutputItem.dependenciesById[j]
              /\ IsFile(fs, Join(Join(functionOutputDir, Dirname(a.output)), <<OutFile(a.input)>>))

\* C20: an extension whose descriptor references an unknown asset id, as a
\* function id or as a dependency id, never reaches success: its build
\* returns isSuccessful = false with both scratch directories removed (unless
\* a removal itself is stopped by an I/O error), no dependency is skipped,
\* and nothing of that extension, functions assembled before the bad
\* reference included, is in the platform output tree.
C20_UnknownIdFailsExtension ==
    /\ \A i \in 1..Len(extensionsOutputs) :
          BadReference(extensionsDirectories[i]) =>
              /\ extensionsOutputs[i] =
                    BuildResult(<<extensionBuildPath(extensionsDirectories[i]),
                                  extensionOutputPath(extensionsDirectories[i])>>,
                                extensionsDirectories[i], FALSE)
              /\ pc = "buildErr" =>
                    /\ ~Exists(fs, extensionBuildPath(extensionsDirectories[i]))
                    /\ ~Exists(fs, extensionOutputPath(extensionsDirectories[i]))
    /\ pc = "bFinish" => ~BadReference(extension)
    /\ BadReferenceThrown => pc = "bCatch" \/ (Done /\ uncaught /\ RemovalFaulted)
    /\ pc \in {"fMkdir", "fPrimary", "fDep", "fConfig"} => KnownId(extension, vercelOutputItem.id)
    /\ pc \in {"fDep", "fConfig"} => PassedDependenciesCopied
    /\ pc = "fConfig" => depIndex = Len(vercelOutputItem.dependenciesById)
    /\ \A ext \in EnabledInstalled : BadReference(ext) => NothingInOutputOf(ext)

\* the second function names an unknown id after the first was assembled;
\* the build has returned and its scratch directories are gone
C20_Witness ==
    /\ pc = "buildErr"
    /\ Len(extensionsOutputs) = 1
    /\ ~extensionsOutputs[1].isSuccessful
    /\ Len(descr[extensionsDirectories[1]].functions) = 2
    /\ KnownId(extensionsDirectories[1], descr[extensionsDirectories[1]].functions[1].id)
    /\ ~KnownId(extensionsDirectories[1], descr[extensionsDirectories[1]].functions[2].id)
    /\ failed = {"build"}

\* an unknown dependency id has just been met
C20_WitnessDependency ==
    /\ pc = "bCatch"
    /\ thrown = "noDependencyConfig"

----------------------------------------------------------------------------
\* the compiled file of the asset of ext with this id, inside directory dir
PlacedFile(ext, id, dir) ==
    { Join(Join(dir, Dirname(a.output)), <<OutFile(a.input)>>) :
        a \in { b \in SeqRange(descr[ext].assets) : b.id = id } }

\* dir holds the compiled file of the asset with this id
HoldsAsset(f, ext, id, dir) ==
    /\ KnownId(ext, id)
    /\ \A p \in PlacedFile(ext, id, dir) : IsFile(f, p)

\* the scratch function directories of ext: one per function with a known id
ScratchDirsOf(ext, fn) ==
    { Join(Join(extensionOutputPath(ext), Dirname(a.output)),
           <<Append(BasenameJs(a.output), "func")>>) :
        a \in { b \in SeqRange(descr[ext].assets) : b.id = fn.id } }

\* a function directory with a descriptor holds the primary's file and the
\* file of every declared dependency
DescriptorMeansComplete ==
    \A ext \in SeqRange(installed) :
        \A fn \in SeqRange(descr[ext].functions) :
            \A dir \in ScratchDirsOf(ext, fn) :
                IsFile(fs, Join(dir, << <<".vc-config", "json">> >>)) =>
                    /\ HoldsAsset(fs, ext, fn.id, dir)
                    /\ \A d \in SeqRange(fn.dependenciesById) : HoldsAsset(fs, ext, d, dir)

\* the descriptor of the function the assembly is at
CurrentDescriptor == Join(functionOutputDir, << <<".vc-config", "json">> >>)

\* a step of the assembly of a function has thrown
AssemblyThrown == thrown \in {"mkdir", "noBuildArtifacts", "copy", "write"}

\* C21: a function is assembled in the order directory, primary artifact,
\* dependencies in their declared order, descriptor; so in every reachable
\* state a function directory that holds .vc-config.json holds the files of
\* its primary asset and of every declared dependency, and a failed copy or
\* write of the sequence makes the build of the whole extension fail.
C21_AssemblyOrder ==
    /\ pc = "fPrimary" => IsDir(fs, functionOutputDir) /\ ~Exists(fs, CurrentDescriptor)
    /\ pc = "fDep" =>
          /\ ~Exists(fs, CurrentDescriptor)
          /\ HoldsAsset(fs, extension, vercelOutputItem.id, functionOutputDir)
          /\ depIndex <= Len(vercelOutputItem.dependenciesById)
          /\ \A j \in 1..depIndex :
                HoldsAsset(fs, extension, vercelOutputItem.dependenciesById[j], functionOutputDir)
    /\ pc = "fConfig" =>
          /\ ~Exists(fs, CurrentDescriptor)
          /\ depIndex = Len(vercelOutputItem.dependenciesById)
    /\ DescriptorMeansComplete
    /\ AssemblyThrown => pc = "bCatch" \/ (Done /\ uncaught)
    /\ pc = "bFinish" =>
          /\ thrown = "none"
          /\ \A fn \in SeqRange(instructions.functions) :
                \A dir \in ScratchDirsOf(extension, fn) :
                    /\ IsFile(fs, Join(dir, << <<".vc-config", "json">> >>))
                    /\ HoldsAsset(fs, extension, fn.id, dir)

\* a copy of the function's artifacts has just failed, after its directory
\* was made
C21_Witness ==
    /\ pc = "bCatch"
    /\ thrown = "copy"
    /\ depIndex = 1
    /\ IsDir(fs, functionOutputDir)
    /\ HoldsAsset(fs, extension, vercelOutputItem.id, functionOutputDir)

\* a function with its descriptor written, primary and dependency in place
C21_WitnessComplete ==
    /\ pc = "fLookup"
    /\ fnIndex = 2
    /\ \E fn \in SeqRange(instructions.functions) :
          /\ Len(fn.dependenciesById) = 2
          /\ \A dir \in ScratchDirsOf(extension, fn) :
                IsFile(fs, Join(dir, << <<".vc-config", "json">> >>))

----------------------------------------------------------------------------
\* the list of the enabled extensions has been read (cli.ts 137): the static
\* stage is over and the output root is the one this run created
LoopReached == Len(extensionsDirectories) > 0

\* the extensions whose build has returned successfully
BuiltSuccessfully ==
    { extensionsDirectories[i] :
        i \in { j \in 1..Len(extensionsOutputs) : extensionsOutputs[j].isSuccessful } }

\* some enabled extension has not completed its build successfully
SomeNotBuilt == \E e \in SeqRange(extensionsDirectories) : e \notin BuiltSuccessfully

\* the output root holds at most the static subtree
AtMostStatic ==
    \A q \in DOMAIN fs :
        IsPrefix(VERCEL_BUILD_OUTPUT, q) =>
            q = VERCEL_BUILD_OUTPUT \/ IsPrefix(staticFilesOutputDir, q)

\* the extensions whose merge copy has been started
MergeStarted == { extensionsDirectories[j] : j \in 1..Min(mergeIndex - 1, Len(extensionsDirectories)) }

\* C22: no extension output is merged before all extensions are built: while
\* some enabled extension has not completed its build successfully the
\* functions subtree does not exist and the output root holds at most the
\* static subtree; the merge writes one extension after the other, in build
\* order.
C22_MergeAfterAllBuilds ==
    LoopReached =>
        /\ SomeNotBuilt => ~Exists(fs, functionsDir) /\ AtMostStatic
        /\ pc \in {"merge", "mergeErr", "manifest", "cleanup"} =>
              /\ Len(extensionsOutputs) = Len(extensionsDirectories)
              /\ \A i \in 1..Len(extensionsOutputs) :
                    extensionsOutputs[i].outputDirectory
                        = extensionOutputPath(extensionsDirectories[i])
        /\ \A q \in DOMAIN fs :
              (IsPrefix(functionsDir, q) /\ fs[q] # DirC) => fs[q][2] \in MergeStarted

\* the first of two built extensions is merged, the second not yet
C22_Witness ==
    /\ pc = "merge"
    /\ mergeIndex = 2
    /\ Len(extensionsOutputs) = 2
    /\ \E q \in DOMAIN fs : IsPrefix(functionsDir, q) /\ fs[q][2] = extensionsDirectories[1]
    /\ \A q \in DOMAIN fs : IsPrefix(functionsDir, q) => fs[q][2] # extensionsDirectories[2]

\* the second extension is being built after the first: nothing is merged
C22_WitnessBuilding ==
    /\ pc = "fConfig"
    /\ indexExtension = 2
    /\ extensionsOutputs[1].isSuccessful
    /\ ~Exists(fs, functionsDir)
    /\ Exists(fs, staticFilesOutputDir)

----------------------------------------------------------------------------
\* a call of buildExtension ends
BuildEnds == pc \in BuildPcs /\ pc' \notin BuildPcs

\* C23 (as claimed): buildExtension reports every failure through its return
\* value and never through an exception: a call that met a failure at any
\* point ends by returning isSuccessful = false, and the driver goes on to
\* its own error handling.
C23_FailuresAreReturned ==
    [][BuildEnds =>
          /\ ~uncaught'
          /\ Len(extensionsOutputs') = Len(extensionsOutputs) + 1
          /\ pc' \in {"loop", "buildErr"}
          /\ (failed' # {} => ~extensionsOutputs'[Len(extensionsOutputs')].isSuccessful)]_vars
====
